---- MODULE Spec2Model ----
(***************************************************************************)
(* Model of src/app.py: the placeholder substitution, mapping builder,     *)
(* typography step, output-name derivation and batch loop of the supplier  *)
(* homologation document generator.                                        *)
(*                                                                         *)
(* A Python str is a sequence of one-character strings.  A dict is a       *)
(* sequence of [k, v] entries with distinct keys, in insertion order.      *)
(***************************************************************************)
EXTENDS Integers, Sequences, FiniteSets, TLC

VARIABLES
    pc,             \* the position of the call or of the batch run
    paragraph,              \* the paragraph replace_placeholders_in_paragraph works on
    paragraph0,             \* that paragraph as it was passed in
    mapping,        \* the mapping argument, or the mapping process_one built
    changed,        \* the value replace_placeholders_in_paragraph returned
    rec,            \* the record argument
    template_bytes, \* the uploaded template
    records,        \* the records read from the data file
    cfg,            \* the sidebar settings and the exception lists
    idx,              \* the index of the batch loop in records
    doc,            \* the document process_one has open
    out_docx,       \* the bytes process_one saved
    out_name,       \* the name process_one derived
    result,         \* the result dict of the running process_one
    pdf_outcome,    \* how the PDF export of the running process_one ended
    all_outputs,    \* the aggregate of the batch loop
    produced,       \* the out_map of every process_one call that returned
    displayed       \* the files offered for download

vars ==
    <<pc, paragraph, paragraph0, mapping, changed, rec, template_bytes, records, cfg, idx, doc,
      out_docx, out_name, result, pdf_outcome, all_outputs, produced, displayed>>

paraVars ==
    <<paragraph, paragraph0, changed>>

batchVars ==
    <<template_bytes, records, cfg, idx, doc, out_docx, out_name, result,
      pdf_outcome, all_outputs, produced, displayed>>

\* ------------------------------------------------------------------ text
LowerCase ==
    <<"a", "b", "c", "d", "e", "f", "g", "h", "i", "j", "k", "l", "m", "n", "o", "p", "q", "r", "s", "t", "u", "v", "w", "x", "y", "z">>

UpperCase ==
    <<"A", "B", "C", "D", "E", "F", "G", "H", "I", "J", "K", "L", "M", "N", "O", "P", "Q", "R", "S", "T", "U", "V", "W", "X", "Y", "Z">>

Digits ==
    {"0", "1", "2", "3", "4", "5", "6", "7", "8", "9"}

\* the characters str.strip() and str.split() treat as whitespace
Whitespace ==
    {" ", "\t", "\n"}

InSeq(seq, c) ==
    \E i \in 1..Len(seq) : seq[i] = c

IndexOf(seq, c) ==
    CHOOSE i \in 1..Len(seq) : seq[i] = c

ToUpperAscii(c) ==
    IF InSeq(LowerCase, c) THEN UpperCase[IndexOf(LowerCase, c)] ELSE c

\* the class [A-Za-z0-9] of the regular expression in normalize_key
IsAsciiAlnum(c) ==
    InSeq(LowerCase, c) \/ InSeq(UpperCase, c) \/ c \in Digits

\* The accented letters of the model, with the base letter each decomposes to.
\* A character outside ASCII is written as one string naming it: "a'" is a with
\* acute, "a~" a with tilde, "c," c with cedilla, "U+221A" the square root sign.
AccentedLower ==
    <<"a'", "a~", "c,", "e'">>

AccentedUpper ==
    <<"A'", "A~", "C,", "E'">>

AccentBase ==
    <<"a", "a", "c", "e">>

\* unicodedata.normalize("NFD", c) with the combining marks (category Mn) dropped
Decompose(c) ==
    CASE InSeq(AccentedLower, c) -> AccentBase[IndexOf(AccentedLower, c)]
      [] InSeq(AccentedUpper, c) -> ToUpperAscii(AccentBase[IndexOf(AccentedUpper, c)])
      [] OTHER -> c

strip_accents(s) ==
    [i \in 1..Len(s) |-> Decompose(s[i])]

\* str.upper() and str.lower(), one character at a time
ToUpper(c) ==
    CASE InSeq(LowerCase, c) -> UpperCase[IndexOf(LowerCase, c)]
      [] InSeq(AccentedLower, c) -> AccentedUpper[IndexOf(AccentedLower, c)]
      [] OTHER -> c

ToLower(c) ==
    CASE InSeq(UpperCase, c) -> LowerCase[IndexOf(UpperCase, c)]
      [] InSeq(AccentedUpper, c) -> AccentedLower[IndexOf(AccentedUpper, c)]
      [] OTHER -> c

str_upper(s) ==
    [i \in 1..Len(s) |-> ToUpper(s[i])]

str_lower(s) ==
    [i \in 1..Len(s) |-> ToLower(s[i])]

RECURSIVE DropWhile(_, _)
DropWhile(s, set) ==
    IF s # <<>> /\ Head(s) \in set THEN DropWhile(Tail(s), set) ELSE s

RECURSIVE DropLastWhile(_, _)
DropLastWhile(s, set) ==
    IF s # <<>> /\ s[Len(s)] \in set
    THEN DropLastWhile(SubSeq(s, 1, Len(s) - 1), set)
    ELSE s

\* the first index of a character of `set` in s, Len(s) + 1 when there is none
RECURSIVE FirstIn(_, _)
FirstIn(s, set) ==
    IF s = <<>> \/ Head(s) \in set THEN 1 ELSE 1 + FirstIn(Tail(s), set)

\* str.strip(chars): the characters of `set` removed from both ends
StripChars(s, set) ==
    DropLastWhile(DropWhile(s, set), set)

str_strip(s) ==
    StripChars(s, Whitespace)

\* re.sub(r"[<class>]+", rep, s): every maximal run of characters of `set`
\* becomes the one character rep
RECURSIVE SubRuns(_, _, _)
SubRuns(s, set, rep) ==
    IF s = <<>> THEN <<>>
    ELSE IF Head(s) \in set
         THEN <<rep>> \o SubRuns(DropWhile(s, set), set, rep)
         ELSE <<Head(s)>> \o SubRuns(Tail(s), set, rep)

CharsOf(s) ==
    {s[i] : i \in 1..Len(s)}

normalize_key(s) ==
    LET a == strip_accents(s)
        nonAlnum == {c \in CharsOf(a) : ~IsAsciiAlnum(c)}
        u == SubRuns(a, nonAlnum, "_")
    IN  str_upper(StripChars(u, {"_"}))

StartsWith(s, t) ==
    Len(t) <= Len(s) /\ SubSeq(s, 1, Len(t)) = t

EndsWith(s, t) ==
    Len(t) <= Len(s) /\ SubSeq(s, Len(s) - Len(t) + 1, Len(s)) = t

\* t in s
Contains(s, t) ==
    \E i \in 0..(Len(s) - Len(t)) : SubSeq(s, i + 1, i + Len(t)) = t

\* s.replace(old, new) for a non-empty old: every non-overlapping occurrence,
\* left to right
RECURSIVE str_replace(_, _, _)
str_replace(s, old, new) ==
    IF Len(s) < Len(old) THEN s
    ELSE IF StartsWith(s, old)
         THEN new \o str_replace(SubSeq(s, Len(old) + 1, Len(s)), old, new)
         ELSE <<Head(s)>> \o str_replace(Tail(s), old, new)

\* ------------------------------------------------------------------ values
\* Python's None: a one-element sequence that is no string of the alphabet
None ==
    <<"NoneType">>

\* str(v)
Str(v) ==
    IF v = None THEN <<"N", "o", "n", "e">> ELSE v

\* ------------------------------------------------------------------ dict
DictHas(d, k) ==
    \E i \in 1..Len(d) : d[i].k = k

\* d.get(k)
DictGet(d, k) ==
    IF DictHas(d, k) THEN d[CHOOSE i \in 1..Len(d) : d[i].k = k].v ELSE None

\* d[k] = v: a present key keeps its position
DictSet(d, k, v) ==
    IF DictHas(d, k)
    THEN [i \in 1..Len(d) |-> IF d[i].k = k THEN [k |-> k, v |-> v] ELSE d[i]]
    ELSE Append(d, [k |-> k, v |-> v])

\* ------------------------------------------------------------------ PLACEHOLDER_REGEX
\* the first index >= i of a "}" in text, Len(text) + 1 when there is none
RECURSIVE FirstClose(_, _)
FirstClose(text, i) ==
    IF i > Len(text) \/ text[i] = "}" THEN i ELSE FirstClose(text, i + 1)

\* the index of the last character of the match of \{\{([^}]+)\}\} that starts
\* at i, 0 when the expression does not match there
MatchEnd(text, i) ==
    IF i + 1 <= Len(text) /\ text[i] = "{" /\ text[i + 1] = "{"
    THEN LET j == FirstClose(text, i + 2)
         IN  IF j > i + 2 /\ j + 1 <= Len(text) /\ text[j + 1] = "}"
             THEN j + 1
             ELSE 0
    ELSE 0

\* the matches of PLACEHOLDER_REGEX in text from index i on, as <<first, last>>
RECURSIVE Matches(_, _)
Matches(text, i) ==
    IF i > Len(text) THEN <<>>
    ELSE LET e == MatchEnd(text, i)
         IN  IF e > 0
             THEN <<(<<i, e>>)>> \o Matches(text, e + 1)
             ELSE Matches(text, i + 1)

\* PLACEHOLDER_REGEX.findall(text or ""): the captured group of every match
collect_placeholders_from_text(text) ==
    LET ms == Matches(text, 1)
    IN  [n \in 1..Len(ms) |-> SubSeq(text, ms[n][1] + 2, ms[n][2] - 2)]

\* ------------------------------------------------------------------ file names
\* the class [\\/:*?"<>|] of the regular expression in safe_filename
UnsafeChars ==
    {"\\", "/", ":", "*", "?", "\"", "<", ">", "|"}

safe_filename(name) ==
    str_strip(SubRuns(Str(name), UnsafeChars, "-"))

\* s.split(): the maximal runs of non-whitespace characters
RECURSIVE str_split(_)
str_split(s) ==
    LET t == DropWhile(s, Whitespace)
        n == FirstIn(t, Whitespace)
    IN  IF t = <<>> THEN <<>>
        ELSE <<SubSeq(t, 1, n - 1)>> \o str_split(SubSeq(t, n, Len(t)))

\* sep.join(words)
RECURSIVE str_join(_, _)
str_join(sep, words) ==
    IF words = <<>> THEN <<>>
    ELSE IF Len(words) = 1 THEN Head(words)
    ELSE Head(words) \o sep \o str_join(sep, Tail(words))

\* " ".join(s.split())
CollapseWhitespace(s) ==
    str_join(<<" ">>, str_split(s))

\* the index of the last c in s, 0 when there is none (str.rfind, one-based)
RECURSIVE LastIndexOf(_, _)
LastIndexOf(s, c) ==
    IF s = <<>> THEN 0
    ELSE IF s[Len(s)] = c THEN Len(s)
    ELSE LastIndexOf(SubSeq(s, 1, Len(s) - 1), c)

\* os.path.splitext(p)[0]: p up to its last dot, when that dot follows the last
\* "/" and some character between them is not a dot
SplitextRoot(p) ==
    LET sepIndex == LastIndexOf(p, "/")
        dotIndex == LastIndexOf(p, ".")
    IN  IF dotIndex > sepIndex
           /\ \E i \in (sepIndex + 1)..(dotIndex - 1) : p[i] # "."
        THEN SubSeq(p, 1, dotIndex - 1)
        ELSE p

\* ------------------------------------------------------------------ paragraphs
\* A run (span) is [text, name, size, bold]: name is the font family ("None"
\* when unset), size the font size in points (0 when unset), bold one of
\* "True", "False", "None".  A paragraph is the sequence of its runs.
RECURSIVE ConcatAll(_)
ConcatAll(texts) ==
    IF texts = <<>> THEN <<>> ELSE Head(texts) \o ConcatAll(Tail(texts))

\* "".join(run.text for run in p.runs), which is also p.text
ParagraphText(p) ==
    ConcatAll([i \in 1..Len(p) |-> p[i].text])

\* p.add_run(text): a new run without style of its own
NewRun(text) ==
    [text |-> text, name |-> "None", size |-> 0, bold |-> "None"]

\* the value replace_placeholders_in_paragraph resolves for a captured group
ResolveValue(raw_key, map) ==
    LET v1 == DictGet(map, raw_key)
        v2 == IF v1 = None THEN DictGet(map, normalize_key(raw_key)) ELSE v1
    IN  IF v2 = None THEN <<>> ELSE v2

\* the loop over the captured groups in replace_placeholders_in_paragraph
RECURSIVE SubstituteAll(_, _, _)
SubstituteAll(new_full, phs, map) ==
    IF phs = <<>> THEN new_full
    ELSE LET raw_key == str_strip(Head(phs))
             val == ResolveValue(raw_key, map)
         IN  SubstituteAll(
                 str_replace(new_full, <<"{", "{">> \o raw_key \o <<"}", "}">>, Str(val)),
                 Tail(phs), map)

\* WriteBack with the emptied runs removed from the paragraph
WriteBackDroppingRuns(p, new_full) ==
    IF p = <<>>
    THEN <<NewRun(new_full)>>
    ELSE <<[p[1] EXCEPT !.text = new_full]>>

\* how replace_placeholders_in_paragraph stores the new text in the runs
WriteBack(p, new_full) ==
    IF p = <<>>
    THEN <<NewRun(new_full)>>
    ELSE [i \in 1..Len(p) |->
            [p[i] EXCEPT !.text = IF i = 1 THEN new_full ELSE <<>>]]

\* the paragraph after replace_placeholders_in_paragraph(p, mapping)
replace_placeholders_in_paragraph(p, map) ==
    LET full == ParagraphText(p)
        phs == collect_placeholders_from_text(full)
        new_full == SubstituteAll(full, phs, map)
    IN  IF phs = <<>> THEN p
        ELSE IF new_full # full THEN WriteBack(p, new_full)
        ELSE p

\* the value replace_placeholders_in_paragraph returns
replace_changed(p, map) ==
    LET full == ParagraphText(p)
        phs == collect_placeholders_from_text(full)
    IN  phs # <<>> /\ SubstituteAll(full, phs, map) # full

\* paragraph_contains_any(p, needles)
paragraph_contains_any(p, needles) ==
    LET t == ParagraphText(p)
    IN  \E i \in 1..Len(needles) :
            /\ str_strip(needles[i]) # <<>>
            /\ Contains(str_lower(t), str_lower(str_strip(needles[i])))

\* apply_font_to_paragraph(p, font_name, size_pt, bold)
apply_font_to_paragraph(p, font_name, size_pt, bold) ==
    [i \in 1..Len(p) |->
        [p[i] EXCEPT !.name = font_name,
                     !.size = size_pt,
                     !.bold = IF bold THEN "True" ELSE "False"]]

\* ------------------------------------------------------------------ mapping
\* the candidate lists of the alias table
RazaoCandidates ==
    << <<"R", "A", "Z", "A", "O", "_", "S", "O", "C", "I", "A", "L", "_", "D", "O", "_", "F", "O", "R", "N", "E", "C", "E", "D", "O", "R">>, <<"R", "A", "Z", "A", "O", "_", "S", "O", "C", "I", "A", "L">>,
       <<"R", "A", "Z", "U+221A", "E'", "O">> \o <<"_", "S", "O", "C", "I", "A", "L">>,
       <<"N", "O", "M", "E", "_", "F", "O", "R", "N", "E", "C", "E", "D", "O", "R">> >>

CnpjCandidates ==
    << <<"C", "N", "P", "J">>, <<"C", "N", "P", "J", "_", "D", "O", "_", "F", "O", "R", "N", "E", "C", "E", "D", "O", "R">> >>

EnderecoCandidates ==
    << <<"E", "N", "D", "E", "R", "E", "C", "O">>, <<"E", "N", "D", "E", "R", "E", "U+221A", "a'", "O">>,
       <<"E", "N", "D", "E", "R", "E", "C", "O", "_", "D", "O", "_", "F", "O", "R", "N", "E", "C", "E", "D", "O", "R">> >>

\* InsertFields without the normalized key
RECURSIVE InsertFieldsLiteralOnly(_, _)
InsertFieldsLiteralOnly(map, items) ==
    IF items = <<>> THEN map
    ELSE InsertFieldsLiteralOnly(DictSet(map, Head(items).k, Head(items).v),
                                 Tail(items))

\* the first loop of build_mapping_for_record, over r.items()
RECURSIVE InsertFields(_, _)
InsertFields(map, items) ==
    IF items = <<>> THEN map
    ELSE LET k == Head(items).k
             v == Head(items).v
         IN  InsertFields(DictSet(DictSet(map, k, v), normalize_key(k), v),
                          Tail(items))

\* the alias table of build_mapping_for_record, in its order
Aliases ==
    << [target |-> <<"R", "A", "Z", "A", "O", "_", "S", "O", "C", "I", "A", "L", "_", "D", "O", "_", "F", "O", "R", "N", "E", "C", "E", "D", "O", "R">>,
        candidates |-> RazaoCandidates],
       [target |-> <<"R", "A", "Z", "U+221A", "E'", "O">> \o <<"_", "S", "O", "C", "I", "A", "L", "_", "D", "O", "_", "F", "O", "R", "N", "E", "C", "E", "D", "O", "R">>,
        candidates |-> RazaoCandidates],
       [target |-> <<"R", "a", "z", "U+221A", "U+00A3", "o">> \o <<"_", "S", "o", "c", "i", "a", "l", "_", "d", "o", "_", "F", "o", "r", "n", "e", "c", "e", "d", "o", "r">>,
        candidates |-> RazaoCandidates],
       [target |-> <<"C", "N", "P", "J", "_", "D", "O", "_", "F", "O", "R", "N", "E", "C", "E", "D", "O", "R">>, candidates |-> CnpjCandidates],
       [target |-> <<"C", "N", "P", "J", "_", "d", "o", "_", "F", "o", "r", "n", "e", "c", "e", "d", "o", "r">>, candidates |-> CnpjCandidates],
       [target |-> <<"E", "N", "D", "E", "R", "E", "C", "O", "_", "D", "O", "_", "F", "O", "R", "N", "E", "C", "E", "D", "O", "R">>, candidates |-> EnderecoCandidates],
       [target |-> <<"E", "n", "d", "e", "r", "e">> \o <<"U+221A", "U+00DF">> \o <<"o", "_", "d", "o", "_", "F", "o", "r", "n", "e", "c", "e", "d", "o", "r">>,
        candidates |-> EnderecoCandidates],
       [target |-> <<"D", "A", "T", "A">>,
        candidates |-> << <<"D", "A", "T", "A">>, <<"D", "A", "T", "A", "_", "E", "M", "I", "S", "S", "A", "O">>, <<"D", "A", "T", "A", "_", "A", "T", "U", "A", "L">> >>] >>

\* the inner loop of build_mapping_for_record: the first candidate that is a
\* field of the record, or whose normalized form is a key of the mapping
RECURSIVE ApplyCandidates(_, _, _, _)
ApplyCandidates(map, r, target, candidates) ==
    IF candidates = <<>> THEN map
    ELSE LET c == Head(candidates)
             nc == normalize_key(c)
         IN  IF DictHas(r, c)
             THEN DictSet(DictSet(map, target, DictGet(r, c)),
                          normalize_key(target), DictGet(r, c))
             ELSE IF DictHas(map, nc)
             THEN LET m1 == DictSet(map, target, DictGet(map, nc))
                  IN  DictSet(m1, normalize_key(target), DictGet(m1, nc))
             ELSE ApplyCandidates(map, r, target, Tail(candidates))

\* the outer loop of build_mapping_for_record, over aliases.items()
RECURSIVE ApplyAliases(_, _, _)
ApplyAliases(map, r, aliases) ==
    IF aliases = <<>> THEN map
    ELSE ApplyAliases(
             ApplyCandidates(map, r, Head(aliases).target,
                             Head(aliases).candidates),
             r, Tail(aliases))

build_mapping_for_record(r) ==
    ApplyAliases(InsertFields(<<>>, r), r, Aliases)

\* ------------------------------------------------------------------ documents
\* A document is [body, tables, sections]: body a sequence of paragraphs, a
\* table a sequence of rows, a row a sequence of cells, a cell a sequence of
\* paragraphs; a section maps each of its six header/footer kinds to
\* [present, paragraphs].  The bytes of a file are [format, valid, content].
HeaderFooterKinds ==
    <<"header", "first_page_header", "even_page_header",
      "footer", "first_page_footer", "even_page_footer">>

\* the paragraphs iter_all_paragraphs yields, as a set
BodyAndTableParagraphs(d) ==
    {d.body[n] : n \in 1..Len(d.body)}
    \cup UNION {UNION {UNION {{d.tables[t][row][c][n] : n \in 1..Len(d.tables[t][row][c])}
                              : c \in 1..Len(d.tables[t][row])}
                       : row \in 1..Len(d.tables[t])}
                : t \in 1..Len(d.tables)}

\* the paragraphs of the present header/footer regions, as a set
HeaderFooterParagraphs(d) ==
    UNION {UNION {IF d.sections[n][kind].present
                  THEN {d.sections[n][kind].paragraphs[m] :
                           m \in 1..Len(d.sections[n][kind].paragraphs)}
                  ELSE {}
                  : kind \in DOMAIN d.sections[n]}
           : n \in 1..Len(d.sections)}

\* Document(io.BytesIO(template_bytes)): a parsed copy of the bytes
ParseDocument(bytes) ==
    bytes.content

\* doc.save(out_docx); out_docx.getvalue()
SaveDocument(d) ==
    [format |-> "docx", valid |-> TRUE, content |-> d]

\* convert(temp_docx, pdf_path) and the read of its result
ConvertToPdf(bytes) ==
    [format |-> "pdf", valid |-> TRUE, content |-> bytes.content]

\* ------------------------------------------------------------------ process_one
\* the list comprehensions of the batch loop that drop blank exception lines
DropBlank(lines) ==
    SelectSeq(lines, LAMBDA x : str_strip(x) # <<>>)

\* exceptions_placeholders_norm
NormalizedExceptionKeys(keys) ==
    {normalize_key(keys[n]) : n \in 1..Len(keys)}

\* the bold value process_one computes for a paragraph
ParagraphBold(par, bold_all_by_default, exceptions_contains, exceptions_placeholders) ==
    LET is_exc_text == paragraph_contains_any(par, exceptions_contains)
        tnorm == normalize_key(ParagraphText(par))
        is_exc_ph == \E k \in NormalizedExceptionKeys(exceptions_placeholders) :
                        Contains(tnorm, k)
    IN  (~is_exc_text) /\ (~is_exc_ph) /\ bold_all_by_default

\* the typography applied to one paragraph
StyleParagraph(par, c) ==
    apply_font_to_paragraph(par, c.font_name, c.font_size,
        ParagraphBold(par, c.bold_all, DropBlank(c.exceptions_contains),
                      DropBlank(c.exceptions_placeholders)))

\* the two passes process_one makes over the paragraphs
ReplacePass(map) ==
    [kind |-> "replace", mapping |-> map]

StylePass(c) ==
    [kind |-> "style", cfg |-> c]

\* what the body of a pass does to one paragraph
VisitParagraph(par, pass) ==
    IF pass.kind = "replace"
    THEN replace_placeholders_in_paragraph(par, pass.mapping)
    ELSE StyleParagraph(par, pass.cfg)

VisitEach(pars, pass) ==
    [n \in 1..Len(pars) |-> VisitParagraph(pars[n], pass)]

\* a pass over the paragraphs iter_all_paragraphs yields: the body's and the
\* table cells'
VisitAllParagraphs(d, pass) ==
    [d EXCEPT
        !.body = VisitEach(d.body, pass),
        !.tables = [t \in 1..Len(d.tables) |->
                      [row \in 1..Len(d.tables[t]) |->
                         [c \in 1..Len(d.tables[t][row]) |->
                            VisitEach(d.tables[t][row][c], pass)]]]]

\* a pass over the header/footer paragraphs: for each section, each of the six
\* kinds that is present
VisitHeaderFooterParagraphs(d, pass) ==
    [d EXCEPT
        !.sections = [n \in 1..Len(d.sections) |->
                        [kind \in DOMAIN d.sections[n] |->
                            IF d.sections[n][kind].present
                            THEN [d.sections[n][kind] EXCEPT
                                    !.paragraphs = VisitEach(@, pass)]
                            ELSE d.sections[n][kind]]]]

\* the two replacement loops of process_one
ReplaceInDocument(d, map) ==
    VisitHeaderFooterParagraphs(VisitAllParagraphs(d, ReplacePass(map)),
                                ReplacePass(map))

\* StyleDocument without the header/footer loop
StyleBodyOnly(d, c) ==
    VisitAllParagraphs(d, StylePass(c))

\* the two typography loops of process_one
StyleDocument(d, c) ==
    VisitHeaderFooterParagraphs(VisitAllParagraphs(d, StylePass(c)), StylePass(c))

\* the loop of process_one over mapping.items() that fills the name template
RECURSIVE FillName(_, _)
FillName(name, items) ==
    IF items = <<>> THEN name
    ELSE LET k == Head(items).k
             v == Head(items).v
             n1 == str_replace(name, <<"{">> \o k \o <<"}">>, safe_filename(v))
             n2 == str_replace(n1, <<"{">> \o normalize_key(k) \o <<"}">>, safe_filename(v))
         IN  FillName(n2, Tail(items))

\* out_name of process_one
DeriveName(filename_template, map) ==
    LET filled == CollapseWhitespace(FillName(filename_template, map))
    IN  IF EndsWith(str_lower(filled), <<".", "d", "o", "c", "x">>) THEN filled
        ELSE filled \o <<".", "d", "o", "c", "x">>

\* pdf_name of process_one
PdfName(name) ==
    SplitextRoot(name) \o <<".", "p", "d", "f">>

\* the primary entry process_one returns for a record: its derived name and the
\* saved document
PrimaryOutput(bytes, r, c) ==
    LET map == build_mapping_for_record(r)
        d == StyleDocument(ReplaceInDocument(ParseDocument(bytes), map), c)
    IN  [k |-> DeriveName(c.filename_tpl, map), v |-> SaveDocument(d)]

\* an update that keeps the entry of a name already present
RECURSIVE DictUpdateKeepFirst(_, _)
DictUpdateKeepFirst(d, other) ==
    IF other = <<>> THEN d
    ELSE DictUpdateKeepFirst(
             IF DictHas(d, Head(other).k) THEN d
             ELSE DictSet(d, Head(other).k, Head(other).v),
             Tail(other))

\* all_outputs.update(out_map)
RECURSIVE DictUpdate(_, _)
DictUpdate(d, other) ==
    IF other = <<>> THEN d
    ELSE DictUpdate(DictSet(d, Head(other).k, Head(other).v), Tail(other))

\* ------------------------------------------------------------------ inputs
MaxRuns ==
    3

MaxFields ==
    2

MaxRecords ==
    3

\* the sequences over `pool` of length at most n
RECURSIVE SeqsUpTo(_, _)
SeqsUpTo(pool, n) ==
    IF n = 0 THEN {<<>>}
    ELSE LET shorter == SeqsUpTo(pool, n - 1)
         IN  shorter \cup {Append(q, x) : q \in shorter, x \in pool}

StyledRun(text, bold) ==
    [text |-> text, name |-> "Arial", size |-> 9, bold |-> bold]

RunTexts ==
    { <<>>, <<"H", "i", " ">>, <<"{", "{", "C", "N">>, <<"P", "J", "}", "}">>, <<"{", "{", "C", "N", "P", "J", "}", "}">>, <<"{", "{", " ", "C", "N", "P", "J", " ", "}", "}">>,
      <<"{", "{", "d", "a", "t", "a", "}", "}">>, <<"{", "{">> }

RunPool ==
    {StyledRun(t, b) : t \in RunTexts, b \in {"True", "None"}}

Paragraphs ==
    SeqsUpTo(RunPool, MaxRuns)

Entry(k, v) ==
    [k |-> k, v |-> v]

Mappings ==
    { <<>>,
      <<Entry(<<"C", "N", "P", "J">>, <<"1", "2", "/", "3">>), Entry(<<"D", "A", "T", "A">>, <<"d", "1">>)>>,
      <<Entry(<<" ", "C", "N", "P", "J", " ">>, <<"x">>), Entry(<<"d", "a", "t", "a">>, <<"d", "2">>), Entry(<<"D", "A", "T", "A">>, <<"d", "3">>)>>,
      <<Entry(<<"C", "N", "P", "J">>, <<"{", "{", "C", "N", "P", "J", "}", "}">>)>> }

FieldNames ==
    { <<"C", "N", "P", "J">>, <<"C", "N", "P", "J", "_", "D", "O", "_", "F", "O", "R", "N", "E", "C", "E", "D", "O", "R">>, <<"D", "a", "t", "a">>, <<"d", "a", "t", "a">>, <<"A", "_", "B">>, <<"a", " ", "b">> }

FieldValues ==
    { <<"1">>, <<"2">> }

\* the records of at most MaxFields fields with distinct names
RecordsOver(names, values) ==
    {r \in SeqsUpTo({Entry(k, v) : k \in names, v \in values}, MaxFields) :
        \A a, b \in 1..Len(r) : a # b => r[a].k # r[b].k}

\* what json.loads yields for a list element that is no object
NotADict ==
    <<Entry(<<>>, <<"not a dict">>)>>

BatchRecords ==
    { <<Entry(<<"C", "N", "P", "J">>, <<"1", "2", "/", "3">>), Entry(<<"D", "a", "t", "a">>, <<"d", "1">>)>>,
      <<Entry(<<"C", "N", "P", "J">>, <<"1", "2", "/", "3">>), Entry(<<"D", "a", "t", "a">>, <<"d", "2">>)>>,
      <<Entry(<<"c", "n", "p", "j">>, <<"7">>)>>,
      NotADict }

EmptyDocument ==
    [body |-> <<>>, tables |-> <<>>, sections |-> <<>>]

Absent ==
    [present |-> FALSE, paragraphs |-> <<>>]

Region(pars) ==
    [present |-> TRUE, paragraphs |-> pars]

NoHeaderFooter ==
    [kind \in {HeaderFooterKinds[n] : n \in 1..Len(HeaderFooterKinds)} |-> Absent]

LetterTemplate ==
    [body |-> << <<StyledRun(<<"H", "i", " ">>, "None"), StyledRun(<<"{", "{", "C", "N">>, "True"),
                   StyledRun(<<"P", "J", "}", "}">>, "False")>>,
                 <<StyledRun(<<"C", "N", "P", "J", ":", " ", "{", "{", " ", "C", "N", "P", "J", " ", "}", "}">>, "None")>> >>,
     tables |-> << << << << <<StyledRun(<<"{", "{", "d", "a", "t", "a", "}", "}">>, "True")>> >> >> >> >>,
     sections |-> << [NoHeaderFooter EXCEPT
                        !["header"] = Region(<< <<StyledRun(<<"{", "{", "D", "a", "t", "a", "}", "}", " ", "h", "i">>, "False")>> >>),
                        !["footer"] = Region(<< <<>> >>)] >>]

PlainTemplate ==
    [body |-> << <<StyledRun(<<"x">>, "None"), StyledRun(<<"y">>, "True")>> >>,
     tables |-> <<>>,
     sections |-> << [NoHeaderFooter EXCEPT
                        !["first_page_footer"] =
                            Region(<< <<StyledRun(<<"{", "{", "C", "N", "P", "J", "}", "}">>, "None")>> >>)] >>]

TableTemplate ==
    [body |-> <<>>,
     tables |-> << << << << <<StyledRun(<<"{", "{", "C", "N", "P", "J">>, "None"), StyledRun(<<"}", "}">>, "True")>> >>,
                         << <<StyledRun(<<"H", "i">>, "False")>>,
                            <<StyledRun(<<"{", "{", "c", "n", "p", "j", "}", "}", "D", "a", "t", "a">>, "None")>> >> >> >> >>,
     sections |-> <<>>]

DocxBytes(d) ==
    [format |-> "docx", valid |-> TRUE, content |-> d]

\* bytes that are no document
CorruptBytes ==
    [format |-> "docx", valid |-> FALSE, content |-> EmptyDocument]

NoBytes ==
    [format |-> "none", valid |-> FALSE, content |-> EmptyDocument]

Templates ==
    {DocxBytes(LetterTemplate), DocxBytes(PlainTemplate), DocxBytes(TableTemplate),
     CorruptBytes}

Settings(bold, contains, placeholders, tpl, pdf) ==
    [font_name |-> "Calibri", font_size |-> 11, bold_all |-> bold,
     exceptions_contains |-> contains, exceptions_placeholders |-> placeholders,
     filename_tpl |-> tpl, try_pdf |-> pdf]

NameTemplates ==
    { <<"D", "o", "c", " ", "{", "C", "N", "P", "J", "}", ".", "d", "o", "c", "x">>, <<"a", "/", "b", " ", " ", "{", "D", "A", "T", "A", "}">>, <<"{", "D", "a", "t", "a", "}", ".", "D", "O", "C", "X">> }

\* the settings a single call of process_one is checked under
AllSettings ==
    {Settings(b, c, k, t, f) :
        b \in BOOLEAN,
        c \in { <<>>, << <<" ", "h", "i", " ">> >>, << <<" ", " ">>, <<"P", "J">> >> },
        k \in { <<>>, << <<"d", "a", "t", "a">> >>, << <<"-", "-">> >> },
        t \in NameTemplates,
        f \in BOOLEAN}

\* the settings the batch loop is checked under
BatchSettings ==
    {Settings(TRUE, << <<" ", "h", "i", " ">> >>, << <<"d", "a", "t", "a">> >>, t, f) :
        t \in { <<"D", "o", "c", " ", "{", "C", "N", "P", "J", "}", ".", "d", "o", "c", "x">>, <<"a", "/", "b", " ", " ", "{", "D", "A", "T", "A", "}">> }, f \in BOOLEAN}

DefaultSettings ==
    Settings(TRUE, <<>>, <<>>, <<"D", "o", "c", " ", "{", "C", "N", "P", "J", "}", ".", "d", "o", "c", "x">>, FALSE)

\* ------------------------------------------------------------------ initial states
IdleParagraph ==
    /\ paragraph = <<>>
    /\ paragraph0 = <<>>
    /\ changed = FALSE

IdleBatch ==
    /\ template_bytes = NoBytes
    /\ records = <<>>
    /\ cfg = DefaultSettings
    /\ idx = 0
    /\ doc = EmptyDocument
    /\ out_docx = NoBytes
    /\ out_name = <<>>
    /\ result = <<>>
    /\ pdf_outcome = "none"
    /\ all_outputs = <<>>
    /\ produced = <<>>
    /\ displayed = <<>>

\* a call of replace_placeholders_in_paragraph(paragraph, mapping)
InitPara ==
    /\ pc = "replace_call"
    /\ paragraph \in Paragraphs
    /\ paragraph0 = paragraph
    /\ mapping \in Mappings
    /\ changed = FALSE
    /\ rec = <<>>
    /\ IdleBatch

\* a call of build_mapping_for_record(rec)
InitMap ==
    /\ pc = "build_call"
    /\ rec \in RecordsOver(FieldNames, FieldValues)
    /\ mapping = <<>>
    /\ IdleParagraph
    /\ IdleBatch

BatchStart ==
    /\ pc = "go"
    /\ idx = 0
    /\ doc = EmptyDocument
    /\ out_docx = NoBytes
    /\ out_name = <<>>
    /\ result = <<>>
    /\ pdf_outcome = "none"
    /\ all_outputs = <<>>
    /\ produced = <<>>
    /\ displayed = <<>>
    /\ rec = <<>>
    /\ mapping = <<>>
    /\ IdleParagraph

\* the button pressed with a template and a data file of one record
InitOne ==
    /\ template_bytes \in Templates
    /\ records \in {<<r>> : r \in BatchRecords}
    /\ cfg \in AllSettings
    /\ BatchStart

\* the button pressed with a template and a data file of up to MaxRecords records
Init ==
    /\ template_bytes \in Templates
    /\ records \in SeqsUpTo(BatchRecords, MaxRecords)
    /\ cfg \in BatchSettings
    /\ BatchStart

\* ------------------------------------------------------------------ actions
ReplaceCall ==
    /\ pc = "replace_call"
    /\ paragraph' = replace_placeholders_in_paragraph(paragraph, mapping)
    /\ changed' = replace_changed(paragraph, mapping)
    /\ pc' = "replace_returned"
    /\ UNCHANGED <<paragraph0, mapping, rec>>
    /\ UNCHANGED batchVars

BuildCall ==
    /\ pc = "build_call"
    /\ mapping' = build_mapping_for_record(rec)
    /\ pc' = "build_returned"
    /\ UNCHANGED <<rec>>
    /\ UNCHANGED paraVars
    /\ UNCHANGED batchVars

\* if go: ... all_outputs = {} (an empty record list only shows a warning)
Go ==
    /\ pc = "go"
    /\ IF records = <<>>
       THEN pc' = "done" /\ UNCHANGED idx
       ELSE pc' = "loop" /\ idx' = 1
    /\ all_outputs' = <<>>
    /\ UNCHANGED <<mapping, rec, template_bytes, records, cfg, doc, out_docx,
                   out_name, result, pdf_outcome, produced, displayed>>
    /\ UNCHANGED paraVars

\* ProcessOpen with the document parsed once and kept open across the records
ProcessOpenReusingDocument ==
    /\ pc = "loop"
    /\ idx <= Len(records)
    /\ rec' = records[idx]
    /\ pdf_outcome' = "none"
    /\ IF records[idx] = NotADict
       THEN pc' = "raised" /\ UNCHANGED <<mapping, doc>>
       ELSE /\ mapping' = build_mapping_for_record(records[idx])
            /\ IF template_bytes.valid
               THEN /\ pc' = "replace"
                    /\ doc' = IF idx = 1 THEN ParseDocument(template_bytes) ELSE doc
               ELSE pc' = "raised" /\ UNCHANGED doc
    /\ UNCHANGED <<template_bytes, records, cfg, idx, out_docx, out_name, result,
                   all_outputs, produced, displayed>>
    /\ UNCHANGED paraVars

\* process_one up to the opened template; a record that is no dict, or bytes
\* that are no document, raise
ProcessOpen ==
    /\ pc = "loop"
    /\ idx <= Len(records)
    /\ rec' = records[idx]
    /\ pdf_outcome' = "none"
    /\ IF records[idx] = NotADict
       THEN pc' = "raised" /\ UNCHANGED <<mapping, doc>>
       ELSE /\ mapping' = build_mapping_for_record(records[idx])
            /\ IF template_bytes.valid
               THEN pc' = "replace" /\ doc' = ParseDocument(template_bytes)
               ELSE pc' = "raised" /\ UNCHANGED doc
    /\ UNCHANGED <<template_bytes, records, cfg, idx, out_docx, out_name, result,
                   all_outputs, produced, displayed>>
    /\ UNCHANGED paraVars

ProcessReplace ==
    /\ pc = "replace"
    /\ doc' = ReplaceInDocument(doc, mapping)
    /\ pc' = "font"
    /\ UNCHANGED <<mapping, rec, template_bytes, records, cfg, idx, out_docx,
                   out_name, result, pdf_outcome, all_outputs, produced, displayed>>
    /\ UNCHANGED paraVars

ProcessFont ==
    /\ pc = "font"
    /\ doc' = StyleDocument(doc, cfg)
    /\ pc' = "save"
    /\ UNCHANGED <<mapping, rec, template_bytes, records, cfg, idx, out_docx,
                   out_name, result, pdf_outcome, all_outputs, produced, displayed>>
    /\ UNCHANGED paraVars

ProcessSave ==
    /\ pc = "save"
    /\ out_docx' = SaveDocument(doc)
    /\ out_name' = DeriveName(cfg.filename_tpl, mapping)
    /\ result' = <<Entry(out_name', out_docx')>>
    /\ pc' = IF cfg.try_pdf THEN "pdf" ELSE "return"
    /\ UNCHANGED <<mapping, rec, template_bytes, records, cfg, idx, doc,
                   pdf_outcome, all_outputs, produced, displayed>>
    /\ UNCHANGED paraVars

\* the steps of the PDF export, any of which may raise inside the try
PdfOutcomes ==
    {"import_failed", "write_failed", "convert_failed", "read_failed", "ok"}

\* ProcessPdf without the except clause: a failed step raises to the caller
ProcessPdfUnguarded ==
    /\ pc = "pdf"
    /\ \E outcome \in PdfOutcomes :
        /\ pdf_outcome' = outcome
        /\ result' = IF outcome = "ok"
                     THEN DictSet(result, PdfName(out_name), ConvertToPdf(out_docx))
                     ELSE result
        /\ pc' = IF outcome = "ok" THEN "return" ELSE "raised"
    /\ UNCHANGED <<mapping, rec, template_bytes, records, cfg, idx, doc, out_docx,
                   out_name, all_outputs, produced, displayed>>
    /\ UNCHANGED paraVars

ProcessPdf ==
    /\ pc = "pdf"
    /\ \E outcome \in PdfOutcomes :
        /\ pdf_outcome' = outcome
        /\ result' = IF outcome = "ok"
                     THEN DictSet(result, PdfName(out_name), ConvertToPdf(out_docx))
                     ELSE result
    /\ pc' = "return"
    /\ UNCHANGED <<mapping, rec, template_bytes, records, cfg, idx, doc, out_docx,
                   out_name, all_outputs, produced, displayed>>
    /\ UNCHANGED paraVars

\* out_map = process_one(...); all_outputs.update(out_map)
ProcessReturn ==
    /\ pc = "return"
    /\ produced' = Append(produced, result)
    /\ all_outputs' = DictUpdate(all_outputs, result)
    /\ idx' = idx + 1
    /\ pc' = "loop"
    /\ UNCHANGED <<mapping, rec, template_bytes, records, cfg, doc, out_docx,
                   out_name, result, pdf_outcome, displayed>>
    /\ UNCHANGED paraVars

\* after the loop: the download buttons and the archive
ShowOutputs ==
    /\ pc = "loop"
    /\ idx > Len(records)
    /\ displayed' = all_outputs
    /\ pc' = "done"
    /\ UNCHANGED <<mapping, rec, template_bytes, records, cfg, idx, doc, out_docx,
                   out_name, result, pdf_outcome, all_outputs, produced>>
    /\ UNCHANGED paraVars

\* except Exception as e: st.exception(e)
ShowException ==
    /\ pc = "raised"
    /\ pc' = "failed"
    /\ UNCHANGED <<mapping, rec, template_bytes, records, cfg, idx, doc, out_docx,
                   out_name, result, pdf_outcome, all_outputs, produced, displayed>>
    /\ UNCHANGED paraVars

Next ==
    \/ Go
    \/ ProcessOpen
    \/ ProcessReplace
    \/ ProcessFont
    \/ ProcessSave
    \/ ProcessPdf
    \/ ProcessReturn
    \/ ShowOutputs
    \/ ShowException

\* the batch run
Spec ==
    Init /\ [][Next]_vars

\* the batch run over a single record, under every setting
SpecOne ==
    InitOne /\ [][Next]_vars

SpecPara ==
    InitPara /\ [][ReplaceCall]_vars

SpecMap ==
    InitMap /\ [][BuildCall]_vars

\* ------------------------------------------------------------------ properties
\* the index in the paragraph's text of the first character of run n
RunStart(p, n) ==
    1 + Len(ParagraphText(SubSeq(p, 1, n - 1)))

\* run n holds a character of the match m = <<first, last>>
RunOverlaps(p, n, m) ==
    /\ p[n].text # <<>>
    /\ RunStart(p, n) <= m[2]
    /\ RunStart(p, n) + Len(p[n].text) - 1 >= m[1]

\* the matches of the paragraph's text
TokensOf(p) ==
    LET ms == Matches(ParagraphText(p), 1)
    IN  {ms[n] : n \in 1..Len(ms)}

FirstRunOf(p, m) ==
    CHOOSE n \in 1..Len(p) :
        RunOverlaps(p, n, m) /\ \A k \in 1..(n - 1) : ~RunOverlaps(p, k, m)

LastRunOf(p, m) ==
    CHOOSE n \in 1..Len(p) :
        RunOverlaps(p, n, m) /\ \A k \in (n + 1)..Len(p) : ~RunOverlaps(p, k, m)

\* run n lies in the run range of some token
InTokenRange(p, n) ==
    \E m \in TokensOf(p) : FirstRunOf(p, m) <= n /\ n <= LastRunOf(p, m)

\* run n starts a block: it is the first run of a token's range and lies inside
\* no other token's range
StartsBlock(p, n) ==
    /\ \E m \in TokensOf(p) : FirstRunOf(p, m) = n
    /\ \A m \in TokensOf(p) : ~(FirstRunOf(p, m) < n /\ n <= LastRunOf(p, m))

\* C1: when the substitution changes the text, every run outside the run range
\* of every token keeps its text, every run inside a range other than the first
\* run of its block is emptied, and the substituted text is what the runs hold.
C1_OnlyBlockRunsModified ==
    (pc = "replace_returned" /\ changed) =>
        /\ \A n \in 1..Len(paragraph0) :
              ~InTokenRange(paragraph0, n) => paragraph[n].text = paragraph0[n].text
        /\ \A n \in 1..Len(paragraph0) :
              (InTokenRange(paragraph0, n) /\ ~StartsBlock(paragraph0, n))
                  => paragraph[n].text = <<>>
        /\ ParagraphText(paragraph) # ParagraphText(paragraph0)

\* the value the claim resolves for the token text KEY: the literal key first,
\* then the normalized key, then the empty string
ClaimedValue(key, map) ==
    IF DictHas(map, key) THEN Str(DictGet(map, key))
    ELSE IF DictHas(map, normalize_key(key)) THEN Str(DictGet(map, normalize_key(key)))
    ELSE <<>>

\* text from index n on with every match of ms replaced, in one pass
RECURSIVE ClaimedText(_, _, _, _)
ClaimedText(text, n, ms, map) ==
    IF ms = <<>> THEN SubSeq(text, n, Len(text))
    ELSE LET m == Head(ms)
         IN  SubSeq(text, n, m[1] - 1)
             \o ClaimedValue(SubSeq(text, m[1] + 2, m[2] - 2), map)
             \o ClaimedText(text, m[2] + 1, Tail(ms), map)

\* C2: the effective text after the substitution is the original text with
\* every {{KEY}} occurrence replaced by mapping[KEY], else
\* mapping[normalize_key(KEY)], else the empty string, and nothing else changed.
C2_EveryTokenReplaced ==
    pc = "replace_returned" =>
        ParagraphText(paragraph) =
            ClaimedText(ParagraphText(paragraph0), 1,
                        Matches(ParagraphText(paragraph0), 1), mapping)

\* C9: the substitution leaves the number and order of the runs and every
\* run's font family, font size and bold attribute as they were.
C9_RunsAndStylesKept ==
    pc = "replace_returned" =>
        /\ Len(paragraph) = Len(paragraph0)
        /\ \A n \in 1..Len(paragraph0) :
              /\ paragraph[n].name = paragraph0[n].name
              /\ paragraph[n].size = paragraph0[n].size
              /\ paragraph[n].bold = paragraph0[n].bold

\* a substitution over three runs of different style that emptied a run
C9_Witness ==
    /\ pc = "replace_returned"
    /\ changed
    /\ Len(paragraph0) = 3
    /\ paragraph0[1].bold # paragraph0[2].bold
    /\ paragraph0[2].text # <<>>
    /\ paragraph[2].text = <<>>

\* the keys the alias table may write: every target and its normalized form
AliasKeys ==
    UNION {{Aliases[n].target, normalize_key(Aliases[n].target)} : n \in 1..Len(Aliases)}

\* the keys field n of the record is inserted under
FieldKeys(r, n) ==
    {r[n].k, normalize_key(r[n].k)}

AllDocParagraphs(d) ==
    BodyAndTableParagraphs(d) \cup HeaderFooterParagraphs(d)

\* the exception lists as process_one receives them
ArgExceptionsContains ==
    DropBlank(cfg.exceptions_contains)

ArgExceptionsPlaceholders ==
    DropBlank(cfg.exceptions_placeholders)

\* the normalized text of the paragraph contains a normalized exception key
MatchesExceptionKey(par) ==
    \E n \in 1..Len(ArgExceptionsPlaceholders) :
        Contains(normalize_key(ParagraphText(par)),
                 normalize_key(ArgExceptionsPlaceholders[n]))

\* the text of the paragraph contains, case-insensitively, an exception fragment
\* as configured
MatchesFragmentAsConfigured(par) ==
    \E n \in 1..Len(ArgExceptionsContains) :
        Contains(str_lower(ParagraphText(par)), str_lower(ArgExceptionsContains[n]))

\* the same with the fragment trimmed of surrounding whitespace, a fragment
\* that is blank never matching
MatchesFragmentTrimmed(par) ==
    \E n \in 1..Len(ArgExceptionsContains) :
        /\ str_strip(ArgExceptionsContains[n]) # <<>>
        /\ Contains(str_lower(ParagraphText(par)),
                    str_lower(str_strip(ArgExceptionsContains[n])))

\* every run of the paragraph has the policy's font and the bold value `bold`
TypesetAs(par, bold) ==
    \A n \in 1..Len(par) :
        /\ par[n].name = cfg.font_name
        /\ par[n].size = cfg.font_size
        /\ par[n].bold = IF bold THEN "True" ELSE "False"

C4_RecordsIsolated ==
    [][/\ template_bytes' = template_bytes
       /\ produced' # produced =>
             /\ SubSeq(produced', 1, Len(produced)) = produced
             /\ produced'[Len(produced')][1] =
                   PrimaryOutput(template_bytes, records[Len(produced')], cfg)]_vars

\* two different records processed from a template with placeholders
C4_Witness ==
    /\ Len(produced) >= 2
    /\ records[1] # records[2]
    /\ produced[1][1].v # produced[2][1].v
    /\ produced[2][1].v # template_bytes

\* C6: when the run has ended, every record that can be processed has its
\* output in the aggregate result, also a record that follows a failing one.
C6_RunMovesOnAfterFailure ==
    pc \in {"done", "failed"} =>
        \A j \in 1..Len(records) :
            (records[j] # NotADict /\ template_bytes.valid)
                => DictHas(all_outputs, PrimaryOutput(template_bytes, records[j], cfg).k)

\* C7: the derived name has every {KEY} and {normalize_key(KEY)} token of the
\* mapping replaced, no whitespace other than single spaces, none of the
\* characters \ / : * ? " < > | and the extension .docx (in any case) at its end.
C7_NameSafeAndComplete ==
    pc = "return" =>
        /\ \A n \in 1..Len(mapping) :
              /\ ~Contains(out_name, <<"{">> \o mapping[n].k \o <<"}">>)
              /\ ~Contains(out_name, <<"{">> \o normalize_key(mapping[n].k) \o <<"}">>)
        /\ CollapseWhitespace(out_name) = out_name
        /\ CharsOf(out_name) \cap UnsafeChars = {}
        /\ EndsWith(str_lower(out_name), <<".", "d", "o", "c", "x">>)

\* C8: with the PDF export enabled, process_one returns without raising; its
\* result holds the saved document under the derived name, alone when the
\* export failed at any step, and with one PDF entry when it succeeded.
C8_PdfFailureSwallowed ==
    /\ pdf_outcome # "none" => pc \in {"return", "loop", "done"}
    /\ (pc = "return" /\ cfg.try_pdf) =>
          /\ pdf_outcome # "none"
          /\ result[1] = Entry(out_name, SaveDocument(doc))
          /\ pdf_outcome # "ok" => Len(result) = 1
          /\ pdf_outcome = "ok" =>
                /\ Len(result) = 2
                /\ result[2].k # result[1].k
                /\ result[2].v.format = "pdf"

\* a call whose conversion step failed
C8_Witness ==
    /\ pc = "return"
    /\ cfg.try_pdf
    /\ pdf_outcome = "convert_failed"
    /\ Len(result) = 1

\* the index of the last record that derived the name
LastDeriving(name) ==
    CHOOSE j \in 1..Len(produced) :
        /\ produced[j][1].k = name
        /\ \A k \in (j + 1)..Len(produced) : produced[k][1].k # name

\* C10: after a run without failure the aggregate maps every derived name to
\* the bytes of the last record that derived it, holds no more primary entries
\* than there are records, and is what the run offers for download.
C10_LastWriteWins ==
    pc = "done" =>
        /\ Len(produced) = Len(records)
        /\ \A j \in 1..Len(produced) :
              /\ DictHas(all_outputs, produced[j][1].k)
              /\ DictGet(all_outputs, produced[j][1].k)
                    = produced[LastDeriving(produced[j][1].k)][1].v
        /\ Cardinality({n \in 1..Len(all_outputs) : all_outputs[n].v.format = "docx"})
              <= Len(records)
        /\ displayed = all_outputs

\* a finished run in which two records derived the same name for different bytes
C10_Witness ==
    /\ pc = "done"
    /\ \E j, k \in 1..Len(produced) :
          /\ j < k
          /\ produced[j][1].k = produced[k][1].k
          /\ produced[j][1].v # produced[k][1].v
          /\ DictGet(all_outputs, produced[k][1].k) = produced[k][1].v

====
